---------------------------- MODULE Spec2Model ----------------------------
(***************************************************************************)
(* Model of the ingestion / normalisation / deduplication / enrichment     *)
(* pipeline of daily-news-analyst (src/src/ingest.py, src/src/main.py).    *)
(*                                                                         *)
(* Python strings are modelled as sequences of one-character strings, so   *)
(* that slicing, endswith, lower, strip and substring search are computed  *)
(* character by character, as the interpreter computes them.               *)
(***************************************************************************)
EXTENDS Integers, Sequences, FiniteSets, TLC

VARIABLES
    pc,            \* position of the run (which statement executes next)
    url,           \* SpecUrl: the argument of normalize_url
    title,         \* SpecTitle: the argument of normalize_title
    canon,         \* the successive results of the canonicaliser on its own output
    max_articles,  \* process_articles(articles, max_articles, min_chars)
    min_chars,
    articles,      \* the gathered pool (items of normalize_and_dedupe)
    ranked,        \* the list normalize_and_dedupe returned, as returned
    deduplicated,  \* process_articles' local: sorted, truncated, then enriched
    idx,           \* enrich_with_text: 1-based index of the item the loop is at
    enriched,      \* enrich_with_text: the list being built
    attempts,      \* enrich_with_text: one entry per finished iteration of the loop: the
                   \* item, whether extract_fulltext was called and what it returned,
                   \* and len(enriched) at the end of the iteration
    reply,         \* SpecAdapter: what the adapter's source answers
    fetched        \* SpecAdapter: how the adapter's call ended

vars == <<pc, url, title, canon, max_articles, min_chars, articles, ranked,
          deduplicated, idx, enriched, attempts, reply, fetched>>

-----------------------------------------------------------------------------
(* Bounds of the model.                                                    *)

MaxUrlLen == 4          \* longest URL string enumerated for normalize_url
MaxTitleTokens == 3     \* longest title (in tokens) enumerated for normalize_title
MaxApply == 2           \* how often a canonicaliser is re-applied to its own output
MaxPool == 3            \* most records in a pool handed to normalize_and_dedupe
MaxGather == 2          \* most records gather_articles collects in a run
MaxArticles == 2        \* largest max_articles of a run
MaxItems == 2           \* most items handed to enrich_with_text on its own
MaxTextLen == 2         \* longest content / description / extracted text
MaxMinChars == 1        \* largest min_chars
MaxDocs == 1            \* most documents in a keyword-API response, entries in a feed
MaxFeeds == 2           \* most feeds fetch_rss is given

-----------------------------------------------------------------------------
(* Python str helpers.                                                     *)

UpperChars == <<"A","B","C","D","E","F","G","H","I","J","K","L","M",
                "N","O","P","Q","R","S","T","U","V","W","X","Y","Z">>
LowerChars == <<"a","b","c","d","e","f","g","h","i","j","k","l","m",
                "n","o","p","q","r","s","t","u","v","w","x","y","z">>
Digits == {"0","1","2","3","4","5","6","7","8","9"}
Whitespace == {" "}

Range(s) == {s[i] : i \in DOMAIN s}

\* str.lower() on one character
LowerChar(c) ==
    IF \E i \in DOMAIN UpperChars : UpperChars[i] = c
    THEN LowerChars[CHOOSE i \in DOMAIN UpperChars : UpperChars[i] = c]
    ELSE c

\* str.lower()
Lower(s) == [i \in DOMAIN s |-> LowerChar(s[i])]

IsAlpha(c) == c \in Range(UpperChars) \cup Range(LowerChars)

\* s[a:] with a 1-based
From(s, a) == SubSeq(s, a, Len(s))

\* s.find(c, start): the first 1-based index >= start holding c, 0 when absent
Find(s, c, start) ==
    IF \E i \in start..Len(s) : s[i] = c
    THEN CHOOSE i \in start..Len(s) : s[i] = c /\ \A j \in start..(i-1) : s[j] # c
    ELSE 0

\* s.rfind(c): the last 1-based index holding c, 0 when absent
RFind(s, c) ==
    IF \E i \in DOMAIN s : s[i] = c
    THEN CHOOSE i \in DOMAIN s : s[i] = c /\ \A j \in (i+1)..Len(s) : s[j] # c
    ELSE 0

\* s.endswith(suffix)
EndsWith(s, suffix) ==
    /\ Len(suffix) <= Len(s)
    /\ SubSeq(s, Len(s) - Len(suffix) + 1, Len(s)) = suffix

\* sub in s
Contains(sub, s) ==
    \E i \in 1..(Len(s) - Len(sub) + 1) : SubSeq(s, i, i + Len(sub) - 1) = sub

\* str.strip()
Strip(s) ==
    IF \A i \in DOMAIN s : s[i] \in Whitespace
    THEN <<>>
    ELSE LET a == CHOOSE i \in DOMAIN s :
                     s[i] \notin Whitespace /\ \A j \in 1..(i-1) : s[j] \in Whitespace
             b == CHOOSE i \in DOMAIN s :
                     s[i] \notin Whitespace /\ \A j \in (i+1)..Len(s) : s[j] \in Whitespace
         IN  SubSeq(s, a, b)

\* all sequences over S of length at most n
RECURSIVE SeqsUpTo(_, _)
SeqsUpTo(S, n) ==
    IF n = 0 THEN {<<>>}
    ELSE LET shorter == SeqsUpTo(S, n - 1)
         IN  shorter \cup {Append(s, c) : s \in shorter, c \in S}

\* concatenation of a sequence of strings
RECURSIVE Concat(_)
Concat(ss) == IF ss = <<>> THEN <<>> ELSE Head(ss) \o Concat(Tail(ss))

-----------------------------------------------------------------------------
(* urllib.parse.urlparse, as normalize_url uses it.                        *)

SchemeChars == Range(UpperChars) \cup Range(LowerChars) \cup Digits \cup {"+", "-", "."}

\* urllib.parse.uses_params, restricted to the schemes the URL alphabet can spell
UsesParams == {<<>>, <<"h","t","t","p">>}

\* _splitnetloc(url, 2): 1-based index of the first of "/?#" at or after position 3
NetlocEnd(s) ==
    LET hits == {Find(s, c, 3) : c \in {"/", "?", "#"}} \ {0}
    IN  IF hits = {} THEN Len(s) + 1
        ELSE CHOOSE d \in hits : \A e \in hits : d <= e

\* url.split(c, 1)[0]
Before(s, c) == IF Find(s, c, 1) = 0 THEN s ELSE SubSeq(s, 1, Find(s, c, 1) - 1)

\* _splitparams(url)[0]
SplitParams(s) ==
    IF Find(s, "/", 1) # 0
    THEN LET i == Find(s, ";", RFind(s, "/"))
         IN  IF i = 0 THEN s ELSE SubSeq(s, 1, i - 1)
    ELSE SubSeq(s, 1, Find(s, ";", 1) - 1)

\* urlparse(url): [ok |-> FALSE] when it raises ValueError, else scheme, netloc, path
urlparse(u) ==
    LET i == Find(u, ":", 1)
        hasScheme == /\ i > 1
                     /\ IsAlpha(u[1])
                     /\ \A k \in 1..(i-1) : u[k] \in SchemeChars
        scheme == IF hasScheme THEN Lower(SubSeq(u, 1, i - 1)) ELSE <<>>
        rest == IF hasScheme THEN From(u, i + 1) ELSE u
        hasNetloc == Len(rest) >= 2 /\ rest[1] = "/" /\ rest[2] = "/"
        netloc == IF hasNetloc THEN SubSeq(rest, 3, NetlocEnd(rest) - 1) ELSE <<>>
        rest2 == IF hasNetloc THEN From(rest, NetlocEnd(rest)) ELSE rest
        noFragment == Before(rest2, "#")
        noQuery == Before(noFragment, "?")
        path == IF scheme \in UsesParams /\ Find(noQuery, ";", 1) # 0
                THEN SplitParams(noQuery) ELSE noQuery
        \* an opening bracket without its closing one: "Invalid IPv6 URL"
        invalid == "[" \in Range(netloc) /\ "]" \notin Range(netloc)
    IN  IF invalid THEN [ok |-> FALSE, scheme |-> <<>>, netloc |-> <<>>, path |-> <<>>]
        ELSE [ok |-> TRUE, scheme |-> scheme, netloc |-> netloc, path |-> path]

normalize_url(u) ==
    LET parsed == urlparse(u)
    IN  IF ~parsed.ok THEN u
        ELSE parsed.scheme \o <<":", "/", "/">> \o parsed.netloc \o parsed.path

-----------------------------------------------------------------------------
(* normalize_title.                                                        *)

suffixes == <<
    <<" ","-"," ","T","h","e"," ","V","e","r","g","e">>,
    <<" ","|"," ","T","e","c","h","C","r","u","n","c","h">>,
    <<" ","|"," ","A","r","s"," ","T","e","c","h","n","i","c","a">>,
    <<" ","|"," ","W","i","r","e","d">>,
    <<" ","|"," ","E","n","g","a","d","g","e","t">> >>

\* the loop of normalize_title: the first suffix that matches is cut, then break
StripSuffix(t, sufs) ==
    IF \E i \in DOMAIN sufs : EndsWith(t, sufs[i])
    THEN LET i == CHOOSE k \in DOMAIN sufs :
                      EndsWith(t, sufs[k]) /\ \A j \in 1..(k-1) : ~EndsWith(t, sufs[j])
         IN  SubSeq(t, 1, Len(t) - Len(sufs[i]))
    ELSE t

\* normalize_title matching the suffixes after lowercasing (case-insensitively)
normalize_title_nocase(t) ==
    Strip(StripSuffix(Lower(t), [i \in DOMAIN suffixes |-> Lower(suffixes[i])]))

normalize_title(t) == Strip(Lower(StripSuffix(t, suffixes)))

-----------------------------------------------------------------------------
(* Article records.  A dict key that is not set yet (priority_score,       *)
(* fulltext) and a published_at of None are the empty sequence; a value    *)
(* that is present is a one-element sequence.                              *)

None == <<>>
Some(v) == <<v>>

\* datetime.min.replace(tzinfo=timezone.utc): below every real timestamp (those are >= 1)
DatetimeMin == 0

\* the dict an adapter appends: priority_score and fulltext are not set yet
Record(t, u, s, p, d, c, st) ==
    [title |-> t, url |-> u, source |-> s, published_at |-> p,
     description |-> d, content |-> c, source_type |-> st,
     priority_score |-> None, fulltext |-> None]

Article(t, u, p, d, c) == Record(t, u, <<"s">>, p, d, c, "rss")

\* no adapter under test
NoReply == [adapter |-> "none"]
NoFetch == [raised |-> FALSE, articles |-> <<>>]

\* all strings c, cc, ccc, ... of at most n characters
Texts(c, n) == {[i \in 1..k |-> c] : k \in 0..n}

-----------------------------------------------------------------------------
(* The records of the model.                                               *)

Times == {None, Some(1), Some(2)}

\* the pools normalize_and_dedupe is checked on: titles that score 2, 0 and 0,
\* the second of them changed by normalize_title, and three URLs of which two
\* differ as written and agree once normalised
DedupeTitles == {
    <<"t","r","a","d","e">>,
    <<"A","I">>,
    <<"x">> }
DedupeUrls == {
    <<"h",":","/","/","a","?","1">>,
    <<"h",":","/","/","a","?","2">>,
    <<"h",":","/","/","b">> }
DedupeRecords ==
    {Article(t, u, p, <<>>, <<>>) : t \in DedupeTitles, u \in DedupeUrls, p \in Times}

\* the records the adapters of a run can hand to gather_articles; the empty
\* title and the empty URL are those of a document without headline or link
GatherTitles == { <<"t","r","a","d","e">>, <<"A","I">>, <<>> }
GatherUrls == { <<"h",":","/","/","a">>, <<>> }
GatherRecords ==
    {Article(t, u, p, <<>>, c) :
        t \in GatherTitles, u \in GatherUrls, p \in Times, c \in {<<>>, <<"c","c">>}}

\* the items enrich_with_text is checked on
EnrichItems ==
    {Article(<<"t">>, <<"h",":","/","/","a">>, Some(1), d, c) :
        d \in Texts("d", MaxTextLen), c \in Texts("c", MaxTextLen)}

ModelUrls == DedupeUrls \cup GatherUrls
ModelTitles == DedupeTitles \cup GatherTitles

-----------------------------------------------------------------------------
(* list.sort(key=..., reverse=True): a stable sort, descending.            *)

\* tuple comparison a > b, as Python compares the keys
KeyGt(a, b) == \E i \in DOMAIN a : a[i] > b[i] /\ \A j \in 1..(i-1) : a[j] = b[j]

\* the index x is put behind every index whose key does not sort after x's
InsertDesc(order, x, keys) ==
    LET p == Cardinality({i \in DOMAIN order : ~KeyGt(keys[x], keys[order[i]])})
    IN  SubSeq(order, 1, p) \o <<x>> \o SubSeq(order, p + 1, Len(order))

RECURSIVE SortDescFrom(_, _, _)
SortDescFrom(keys, i, order) ==
    IF i > Len(keys) THEN order
    ELSE SortDescFrom(keys, i + 1, InsertDesc(order, i, keys))

\* s sorted by keys (keys[i] is the key of s[i]), largest key first, equal keys
\* in their original order
SortDesc(s, keys) ==
    LET order == SortDescFrom(keys, 1, <<>>)
    IN  [i \in DOMAIN s |-> s[order[i]]]

\* x.get("published_at") or datetime.min.replace(tzinfo=timezone.utc)
PublishedKey(x) == IF x.published_at = None THEN DatetimeMin ELSE x.published_at[1]

\* x.get("priority_score", 0)
ScoreKey(x) == IF x.priority_score = None THEN 0 ELSE x.priority_score[1]

\* the key of the first sort of normalize_and_dedupe: published_at
DateKeys(items) == [i \in DOMAIN items |-> <<PublishedKey(items[i])>>]

\* the key of its last sort: the tuple (priority_score, published_at)
RankKeys(items) == [i \in DOMAIN items |-> <<ScoreKey(items[i]), PublishedKey(items[i])>>]

-----------------------------------------------------------------------------
(* normalize_and_dedupe.                                                   *)

priority_keywords == <<
    <<"p","o","l","i","t","i","c","s">>,
    <<"e","l","e","c","t","i","o","n">>,
    <<"g","o","v","e","r","n","m","e","n","t">>,
    <<"p","r","e","s","i","d","e","n","t">>,
    <<"c","o","n","g","r","e","s","s">>,
    <<"s","e","n","a","t","e">>,
    <<"w","o","r","l","d">>,
    <<"g","l","o","b","a","l">>,
    <<"i","n","t","e","r","n","a","t","i","o","n","a","l">>,
    <<"f","o","r","e","i","g","n">>,
    <<"d","i","p","l","o","m","a","c","y">>,
    <<"t","r","a","d","e">>,
    <<"t","e","c","h","n","o","l","o","g","y">>,
    <<"s","c","i","e","n","c","e">>,
    <<"i","n","n","o","v","a","t","i","o","n">>,
    <<"A","I">>,
    <<"a","r","t","i","f","i","c","i","a","l"," ","i","n","t","e","l","l","i","g","e","n","c","e">>,
    <<"c","l","i","m","a","t","e">>,
    <<"e","c","o","n","o","m","y">>,
    <<"b","u","s","i","n","e","s","s">>,
    <<"f","i","n","a","n","c","e">>,
    <<"m","a","r","k","e","t">>,
    <<"t","r","a","d","e">>,
    <<"b","r","e","a","k","i","n","g">>,
    <<"u","r","g","e","n","t">>,
    <<"c","r","i","s","i","s">>,
    <<"e","m","e","r","g","e","n","c","y">>,
    <<"i","m","p","o","r","t","a","n","t">>,
    <<"m","a","j","o","r">> >>

\* sum(1 for keyword in priority_keywords if keyword in title_lower)
PriorityScore(t) ==
    LET title_lower == Lower(t)
    IN  Cardinality({k \in DOMAIN priority_keywords :
                        Contains(priority_keywords[k], title_lower)})

\* normalize_url, normalize_title and the score, tabulated over the URLs and
\* titles of the model's records
NormalizedUrl == [u \in ModelUrls |-> normalize_url(u)]
NormalizedTitle == [t \in ModelTitles |-> normalize_title(t)]
ScoreOf == [t \in ModelTitles |-> PriorityScore(t)]

\* DedupeFrom with the normalised title and URL written into the kept item
RECURSIVE DedupeFrom_overwriting_keys(_, _, _, _, _)
DedupeFrom_overwriting_keys(items, i, seen_urls, seen_titles, kept) ==
    IF i > Len(items) THEN kept
    ELSE LET item == items[i]
             normalized_url == NormalizedUrl[item.url]
             normalized_title == NormalizedTitle[item.title]
         IN  IF normalized_url \in seen_urls \/ normalized_title \in seen_titles
             THEN DedupeFrom_overwriting_keys(items, i + 1, seen_urls, seen_titles, kept)
             ELSE DedupeFrom_overwriting_keys(items, i + 1,
                             seen_urls \cup {normalized_url},
                             seen_titles \cup {normalized_title},
                             Append(kept, [item EXCEPT
                                 !.url = normalized_url,
                                 !.title = normalized_title,
                                 !.priority_score = Some(ScoreOf[item.title])]))

\* DedupeFrom with the keys of a skipped item recorded as seen too
RECURSIVE DedupeFrom_recording_skipped(_, _, _, _, _)
DedupeFrom_recording_skipped(items, i, seen_urls, seen_titles, kept) ==
    IF i > Len(items) THEN kept
    ELSE LET item == items[i]
             normalized_url == NormalizedUrl[item.url]
             normalized_title == NormalizedTitle[item.title]
         IN  IF normalized_url \in seen_urls \/ normalized_title \in seen_titles
             THEN DedupeFrom_recording_skipped(items, i + 1,
                             seen_urls \cup {normalized_url},
                             seen_titles \cup {normalized_title},
                             kept)
             ELSE DedupeFrom_recording_skipped(items, i + 1,
                             seen_urls \cup {normalized_url},
                             seen_titles \cup {normalized_title},
                             Append(kept, [item EXCEPT
                                 !.priority_score = Some(ScoreOf[item.title])]))

\* the loop over the sorted items: an item whose normalised URL or title has
\* been seen is skipped, any other is scored, recorded and appended
RECURSIVE DedupeFrom(_, _, _, _, _)
DedupeFrom(items, i, seen_urls, seen_titles, kept) ==
    IF i > Len(items) THEN kept
    ELSE LET item == items[i]
             normalized_url == NormalizedUrl[item.url]
             normalized_title == NormalizedTitle[item.title]
         IN  IF normalized_url \in seen_urls \/ normalized_title \in seen_titles
             THEN DedupeFrom(items, i + 1, seen_urls, seen_titles, kept)
             ELSE DedupeFrom(items, i + 1,
                             seen_urls \cup {normalized_url},
                             seen_titles \cup {normalized_title},
                             Append(kept, [item EXCEPT
                                 !.priority_score = Some(ScoreOf[item.title])]))

\* SortedItems without reverse=True: oldest first
SortedItems_oldest_first(items) ==
    SortDesc(items, [i \in DOMAIN items |-> <<0 - PublishedKey(items[i])>>])

\* items.sort(...) in place, newest first
SortedItems(items) == SortDesc(items, DateKeys(items))

\* Ranked with the last sort left out: the kept records in the order of the loop
Ranked_unsorted(kept) == kept

\* deduplicated.sort(...): by priority_score, then published_at, highest first
Ranked(kept) == SortDesc(kept, RankKeys(kept))

\* the value normalize_and_dedupe returns
normalize_and_dedupe(items) == Ranked(DedupeFrom(SortedItems(items), 1, {}, {}, <<>>))

-----------------------------------------------------------------------------
(* enrich_with_text: one iteration of its loop.                            *)

\* NeedsExtraction with the description not looked at
NeedsExtraction_ignoring_description(item, min) ==
    ~(item.content # <<>> /\ Len(item.content) > min)

\* whether the iteration calls extract_fulltext(item["url"])
NeedsExtraction(item, min) ==
    /\ ~(item.content # <<>> /\ Len(item.content) > min)
    /\ ~(item.description # <<>> /\ Len(item.description) > min)

\* Fulltext with the description tried before the content
Fulltext_description_first(item, min, extracted) ==
    IF item.description # <<>> /\ Len(item.description) > min THEN item.description
    ELSE IF item.content # <<>> /\ Len(item.content) > min THEN item.content
    ELSE IF extracted # None /\ extracted[1] # <<>> /\ Len(extracted[1]) > min
         THEN extracted[1]
    ELSE IF item.description # <<>> THEN item.description
    ELSE <<>>

\* the fulltext the iteration settles on; extracted is None or Some(text)
Fulltext(item, min, extracted) ==
    IF item.content # <<>> /\ Len(item.content) > min THEN item.content
    ELSE IF item.description # <<>> /\ Len(item.description) > min THEN item.description
    ELSE IF extracted # None /\ extracted[1] # <<>> /\ Len(extracted[1]) > min
         THEN extracted[1]
    ELSE IF item.description # <<>> THEN item.description
    ELSE <<>>

\* Enriched without the "if fulltext:" test
Enriched_unconditionally(list, item, fulltext) ==
    Append(list, [item EXCEPT !.fulltext = Some(fulltext)])

\* Enriched with the test on the description instead of the fulltext
Enriched_if_description(list, item, fulltext) ==
    IF item.description # <<>> THEN Append(list, [item EXCEPT !.fulltext = Some(fulltext)])
    ELSE list

\* "if fulltext:" the item gets its fulltext and is appended, else it is skipped
Enriched(list, item, fulltext) ==
    IF fulltext # <<>> THEN Append(list, [item EXCEPT !.fulltext = Some(fulltext)])
    ELSE list

\* what extract_fulltext can return: None, or the stripped text of the page
Extractions == {None} \cup {Some(t) : t \in Texts("e", MaxTextLen)}

EnrichStep ==
    /\ pc = "enrich_with_text"
    /\ idx <= Len(deduplicated)
    /\ LET item == deduplicated[idx]
       IN  \E extracted \in Extractions :
               /\ NeedsExtraction(item, min_chars) \/ extracted = None
               /\ enriched' = Enriched(enriched, item, Fulltext(item, min_chars, extracted))
               /\ attempts' = Append(attempts,
                      [item |-> item,
                       called |-> NeedsExtraction(item, min_chars),
                       extracted |-> extracted,
                       size |-> Len(enriched')])
    /\ idx' = idx + 1
    /\ UNCHANGED <<pc, url, title, canon, max_articles, min_chars, articles, ranked,
                   deduplicated,
                   reply, fetched>>

\* EnrichReturn without "if not enriched: return []" in process_articles
EnrichReturn_without_empty_test ==
    /\ pc = "enrich_with_text"
    /\ idx > Len(deduplicated)
    /\ pc' = "summarize_articles"
    /\ UNCHANGED <<url, title, canon, max_articles, min_chars, articles, ranked,
                   deduplicated, idx, enriched, attempts,
                   reply, fetched>>

\* "return enriched"; process_articles returns [] when it is empty and hands it
\* to summarize_articles otherwise
EnrichReturn ==
    /\ pc = "enrich_with_text"
    /\ idx > Len(deduplicated)
    /\ pc' = IF enriched = <<>> THEN "nothing_to_send" ELSE "summarize_articles"
    /\ UNCHANGED <<url, title, canon, max_articles, min_chars, articles, ranked,
                   deduplicated, idx, enriched, attempts,
                   reply, fetched>>

-----------------------------------------------------------------------------
(* The source adapters.  A JSON value read with dict.get is absent (the    *)
(* key is missing), null, or a string; a value of another type fails where *)
(* null fails (it has no strip either) and is not enumerated apart.        *)

Absent == [k |-> "absent", v |-> <<>>]
Null == [k |-> "null", v |-> <<>>]
Str(chars) == [k |-> "str", v |-> chars]

\* datetime.now(timezone.utc): the time of the fetch, after every published_at
FetchTime == 3

\* datetime.fromisoformat(s.replace("Z", "+00:00")): the strings "1" and "2"
\* stand for well-formed ISO-8601 timestamps, every other string raises ValueError
IsoTimes == (<<"1">> :> 1) @@ (<<"2">> :> 2)

\* the published_at of a keyword-API document: None when the field is missing,
\* null or empty, the fetch time when it does not parse
ParsedDate(field) ==
    IF field.k # "str" \/ field.v = <<>> THEN None
    ELSE IF field.v \in DOMAIN IsoTimes THEN Some(IsoTimes[field.v])
    ELSE Some(FetchTime)

\* doc.get(key, ""): the default only when the key is missing
GetOrEmpty(field) == IF field.k = "absent" THEN Str(<<>>) ELSE field

\* doc.get(key, "").strip() raises AttributeError on None
StripRaises(field) == GetOrEmpty(field).k # "str"

Ok(list) == [raised |-> FALSE, articles |-> list]
Raised == [raised |-> TRUE, articles |-> <<>>]

\* one article of the NewsAPI response, mapped
NewsapiRaises(article) ==
    \/ StripRaises(article.title)
    \/ article.source.k = "null"
    \/ StripRaises(article.description)
    \/ StripRaises(article.content)

NewsapiRecord(article) ==
    Record(Strip(GetOrEmpty(article.title).v),
           GetOrEmpty(article.url).v,
           IF article.source.k = "absent" THEN <<"U","n","k","n","o","w","n">>
           ELSE article.source.v,
           ParsedDate(article.publishedAt),
           Strip(GetOrEmpty(article.description).v),
           Strip(GetOrEmpty(article.content).v),
           "newsapi")

\* the loop over the articles: the first one that raises ends the call, for
\* only "except requests.RequestException" is there, and it does not match
NewsapiMapped(docs) ==
    IF \E i \in DOMAIN docs : NewsapiRaises(docs[i]) THEN Raised
    ELSE Ok([i \in DOMAIN docs |-> NewsapiRecord(docs[i])])

\* a missing key and every requests.RequestException (no connection, a status
\* raise_for_status refuses, a body that response.json() cannot decode) return []
fetch_newsapi_articles(r) ==
    IF ~r.key THEN Ok(<<>>)
    ELSE IF r.http # "ok" THEN Ok(<<>>)
    ELSE IF r.status # "ok" THEN Ok(<<>>)
    ELSE IF r.list.k = "absent" THEN Ok(<<>>)
    ELSE IF r.list.k = "null" THEN Raised
    ELSE NewsapiMapped(r.list.v)

\* one document of the NYT response, mapped; headline is absent, null, or an
\* object whose "main" is the field's value
NytRaises(doc) ==
    \/ doc.headline.k = "null"
    \/ doc.headline.k = "dict" /\ StripRaises(doc.headline.main)
    \/ StripRaises(doc.abstract)
    \/ StripRaises(doc.lead_paragraph)

NytRecord(doc) ==
    Record(IF doc.headline.k = "absent" THEN <<>>
           ELSE Strip(GetOrEmpty(doc.headline.main).v),
           GetOrEmpty(doc.web_url).v,
           <<"T","h","e"," ","N","e","w"," ","Y","o","r","k"," ","T","i","m","e","s">>,
           ParsedDate(doc.pub_date),
           Strip(GetOrEmpty(doc.abstract).v),
           Strip(GetOrEmpty(doc.lead_paragraph).v),
           "nyt_api")

\* the loop over the docs, as for NewsAPI
NytMapped(docs) ==
    IF \E i \in DOMAIN docs : NytRaises(docs[i]) THEN Raised
    ELSE Ok([i \in DOMAIN docs |-> NytRecord(docs[i])])

\* status is unused by the NYT adapter; list is data["response"]["docs"]
fetch_nyt_articles(r) ==
    IF ~r.key THEN Ok(<<>>)
    ELSE IF r.http # "ok" THEN Ok(<<>>)
    ELSE IF r.list.k = "absent" THEN Ok(<<>>)
    ELSE IF r.list.k = "null" THEN Raised
    ELSE NytMapped(r.list.v)

\* one entry of a feed, mapped
RssRecord(feed, entry) ==
    Record(Strip(GetOrEmpty(entry.title).v),
           GetOrEmpty(entry.link).v,
           IF feed.title.k = "absent" THEN <<"U","n","k","n","o","w","n"," ","R","S","S">>
           ELSE feed.title.v,
           IF entry.published_parsed # None THEN entry.published_parsed
           ELSE IF entry.updated_parsed # None THEN entry.updated_parsed
           ELSE Some(FetchTime),
           IF entry.summary.k = "absent" THEN <<>> ELSE Strip(entry.summary.v),
           <<>>,
           "rss")

\* the loop over the feed URLs: a feed whose parse raises is logged and skipped
RECURSIVE RssFrom(_, _, _)
RssFrom(feeds, i, list) ==
    IF i > Len(feeds) THEN list
    ELSE IF feeds[i].raises THEN RssFrom(feeds, i + 1, list)
    ELSE RssFrom(feeds, i + 1,
                 list \o [j \in DOMAIN feeds[i].entries |->
                             RssRecord(feeds[i], feeds[i].entries[j])])

fetch_rss(r) == Ok(RssFrom(r.feeds, 1, <<>>))

-----------------------------------------------------------------------------
(* gather_articles, process_articles and main.                             *)

\* items[:n] for n >= 0
Prefix(items, n) == SubSeq(items, 1, IF n < Len(items) THEN n ELSE Len(items))

\* the orchestrator's key, x.get("published_at") or datetime.min.replace(
\* tzinfo=datetime.utc), raises AttributeError when it reaches the right-hand
\* side: the class datetime has no attribute utc
OrchestratorKeyRaises(items) == \E i \in DOMAIN items : items[i].published_at = None

\* process_articles' own sort: by published_at alone, newest first
OrchestratorSorted(items) == SortDesc(items, DateKeys(items))

\* "if len(deduplicated) > max_articles: deduplicated = deduplicated[:max_articles]"
Truncated(items, n) == IF Len(items) > n THEN Prefix(items, n) ELSE items

\* the adapters' lists are concatenated; an exception that leaves an adapter
\* leaves gather_articles too and is caught by main, which exits with status 1
GatherArticles ==
    /\ pc = "gather_articles"
    /\ \/ \E n \in 0..MaxGather : \E pool \in [1..n -> GatherRecords] :
              /\ articles' = pool
              /\ fetched' = Ok(pool)
              /\ pc' = IF pool = <<>> THEN "nothing_to_send" ELSE "normalize_and_dedupe"
       \/ /\ pc' = "exit_1"
          /\ fetched' = Raised
          /\ UNCHANGED articles
    /\ UNCHANGED <<url, title, canon, max_articles, min_chars, ranked, deduplicated,
                   idx, enriched, attempts, reply>>

\* deduplicated = normalize_and_dedupe(articles)
Dedupe ==
    /\ pc = "normalize_and_dedupe"
    /\ articles' = SortedItems(articles)
    /\ ranked' = normalize_and_dedupe(articles)
    /\ deduplicated' = ranked'
    /\ pc' = "sort"
    /\ UNCHANGED <<url, title, canon, max_articles, min_chars, idx, enriched, attempts,
                   reply, fetched>>

\* deduplicated.sort(key=..., reverse=True); an exception leaves process_articles
\* and is caught by main, which logs it and exits with status 1
OrchestratorSort ==
    /\ pc = "sort"
    /\ IF OrchestratorKeyRaises(deduplicated)
       THEN pc' = "exit_1" /\ UNCHANGED deduplicated
       ELSE pc' = "truncate" /\ deduplicated' = OrchestratorSorted(deduplicated)
    /\ UNCHANGED <<url, title, canon, max_articles, min_chars, articles, ranked,
                   idx, enriched, attempts,
                   reply, fetched>>

\* the limit, then the call enrich_with_text(deduplicated, min_chars)
Truncate ==
    /\ pc = "truncate"
    /\ deduplicated' = Truncated(deduplicated, max_articles)
    /\ pc' = "enrich_with_text"
    /\ idx' = 1
    /\ enriched' = <<>>
    /\ UNCHANGED <<url, title, canon, max_articles, min_chars, articles, ranked, attempts,
                   reply, fetched>>

Init ==
    /\ pc = "gather_articles"
    /\ max_articles \in 0..MaxArticles
    /\ min_chars \in {1}
    /\ articles = <<>>
    /\ ranked = <<>>
    /\ deduplicated = <<>>
    /\ idx = 0
    /\ enriched = <<>>
    /\ attempts = <<>>
    /\ url = <<>>
    /\ title = <<>>
    /\ canon = <<>>
    /\ reply = NoReply
    /\ fetched = NoFetch

Next ==
    \/ GatherArticles
    \/ Dedupe
    \/ OrchestratorSort
    \/ Truncate
    \/ EnrichStep
    \/ EnrichReturn

Spec == Init /\ [][Next]_vars

-----------------------------------------------------------------------------
(* SpecDedupe: normalize_and_dedupe on an arbitrary pool.                  *)

InitDedupe ==
    /\ pc = "normalize_and_dedupe"
    /\ \E n \in 0..MaxPool : articles \in [1..n -> DedupeRecords]
    /\ max_articles = 0
    /\ min_chars = 0
    /\ ranked = <<>>
    /\ deduplicated = <<>>
    /\ idx = 0
    /\ enriched = <<>>
    /\ attempts = <<>>
    /\ url = <<>>
    /\ title = <<>>
    /\ canon = <<>>
    /\ reply = NoReply
    /\ fetched = NoFetch

NextDedupe == Dedupe

SpecDedupe == InitDedupe /\ [][NextDedupe]_vars

-----------------------------------------------------------------------------
(* SpecEnrich: enrich_with_text on arbitrary items.                        *)

InitEnrich ==
    /\ pc = "enrich_with_text"
    /\ \E n \in 0..MaxItems : deduplicated \in [1..n -> EnrichItems]
    /\ min_chars \in (-1)..MaxMinChars
    /\ max_articles = 0
    /\ articles = <<>>
    /\ ranked = <<>>
    /\ idx = 1
    /\ enriched = <<>>
    /\ attempts = <<>>
    /\ url = <<>>
    /\ title = <<>>
    /\ canon = <<>>
    /\ reply = NoReply
    /\ fetched = NoFetch

NextEnrich ==
    \/ EnrichStep
    \/ EnrichReturn

SpecEnrich == InitEnrich /\ [][NextEnrich]_vars

-----------------------------------------------------------------------------
(* SpecAdapter: one adapter called on an arbitrary answer of its source.   *)

HttpOutcomes == {"ok", "network_error", "bad_status", "not_json"}

\* data["articles"] / data["response"]["docs"]: missing, null, or a list
Lists(docs) ==
    {[k |-> "absent", v |-> <<>>], [k |-> "null", v |-> <<>>]}
        \cup {[k |-> "list", v |-> l] : l \in SeqsUpTo(docs, MaxDocs)}

NewsapiArticles ==
    [title : {Absent, Null, Str(<<" ", "t">>)},
     url : {Absent, Str(<<"u">>)},
     source : {Absent, Str(<<"s">>)},
     publishedAt : {Absent, Str(<<"1">>), Str(<<"x">>)},
     description : {Absent, Null, Str(<<"d">>)},
     content : {Absent, Null, Str(<<"c">>)}]

NytHeadlines ==
    {[k |-> "absent", main |-> Absent], [k |-> "null", main |-> Absent]}
        \cup {[k |-> "dict", main |-> m] : m \in {Absent, Null, Str(<<"t", " ">>)}}

NytDocs ==
    [headline : NytHeadlines,
     web_url : {Absent, Str(<<"u">>)},
     pub_date : {Absent, Str(<<"2">>), Str(<<"x">>)},
     abstract : {Absent, Null, Str(<<"d">>)},
     lead_paragraph : {Absent, Str(<<"c">>)}]

RssEntries ==
    [title : {Absent, Str(<<"t">>)},
     link : {Absent, Str(<<"u">>)},
     published_parsed : {None, Some(1)},
     updated_parsed : {None, Some(2)},
     summary : {Absent, Str(<<" ", "d">>)}]

RssFeeds ==
    [raises : BOOLEAN,
     title : {Absent, Str(<<"f">>)},
     entries : SeqsUpTo(RssEntries, MaxDocs)]

Replies ==
    [adapter : {"newsapi"}, key : BOOLEAN, http : HttpOutcomes,
     status : {"ok", "error"}, list : Lists(NewsapiArticles), feeds : {<<>>}]
    \cup
    [adapter : {"nyt"}, key : BOOLEAN, http : HttpOutcomes,
     status : {"ok"}, list : Lists(NytDocs), feeds : {<<>>}]
    \cup
    [adapter : {"rss"}, key : {TRUE}, http : {"ok"},
     status : {"ok"}, list : {[k |-> "absent", v |-> <<>>]},
     feeds : SeqsUpTo(RssFeeds, MaxFeeds)]

InitAdapter ==
    /\ pc = "fetch"
    /\ reply \in Replies
    /\ fetched = NoFetch
    /\ url = <<>>
    /\ title = <<>>
    /\ max_articles = 0
    /\ min_chars = 0
    /\ articles = <<>>
    /\ ranked = <<>>
    /\ deduplicated = <<>>
    /\ idx = 0
    /\ enriched = <<>>
    /\ attempts = <<>>
    /\ canon = <<>>

FetchNewsapi ==
    /\ pc = "fetch"
    /\ reply.adapter = "newsapi"
    /\ fetched' = fetch_newsapi_articles(reply)
    /\ pc' = "fetched"
    /\ UNCHANGED <<url, title, canon, max_articles, min_chars, articles, ranked,
                   deduplicated, idx, enriched, attempts, reply>>

FetchNyt ==
    /\ pc = "fetch"
    /\ reply.adapter = "nyt"
    /\ fetched' = fetch_nyt_articles(reply)
    /\ pc' = "fetched"
    /\ UNCHANGED <<url, title, canon, max_articles, min_chars, articles, ranked,
                   deduplicated, idx, enriched, attempts, reply>>

FetchRss ==
    /\ pc = "fetch"
    /\ reply.adapter = "rss"
    /\ fetched' = fetch_rss(reply)
    /\ pc' = "fetched"
    /\ UNCHANGED <<url, title, canon, max_articles, min_chars, articles, ranked,
                   deduplicated, idx, enriched, attempts, reply>>

NextAdapter ==
    \/ FetchNewsapi
    \/ FetchNyt
    \/ FetchRss

SpecAdapter == InitAdapter /\ [][NextAdapter]_vars

-----------------------------------------------------------------------------
(* SpecUrl and SpecTitle: a canonicaliser applied to an arbitrary string,  *)
(* then to its own output.                                                 *)

UrlAlphabet == {"h", "H", ":", "/", "?", "#", ";", "["}
UrlInputs == SeqsUpTo(UrlAlphabet, MaxUrlLen)

TitleTokens == {
    <<"a">>, <<"B">>, <<" ">>,
    <<" ","|"," ","W","i","r","e","d">>,
    <<" ","|"," ","w","i","r","e","d">>,
    <<" ","-"," ","T","h","e"," ","V","e","r","g","e">> }
TitleInputs == {Concat(ts) : ts \in SeqsUpTo(TitleTokens, MaxTitleTokens)}

\* the value the canonicaliser is applied to next
Current(arg) == IF canon = <<>> THEN arg ELSE canon[Len(canon)]

Idle ==
    /\ max_articles = 0
    /\ min_chars = 0
    /\ articles = <<>>
    /\ ranked = <<>>
    /\ deduplicated = <<>>
    /\ idx = 0
    /\ enriched = <<>>
    /\ attempts = <<>>
    /\ canon = <<>>
    /\ reply = NoReply
    /\ fetched = NoFetch

InitUrl ==
    /\ pc = "normalize_url"
    /\ url \in UrlInputs
    /\ title = <<>>
    /\ Idle

NormalizeUrl ==
    /\ pc = "normalize_url"
    /\ Len(canon) < MaxApply
    /\ canon' = Append(canon, normalize_url(Current(url)))
    /\ UNCHANGED <<pc, url, title, max_articles, min_chars, articles, ranked,
                   deduplicated, idx, enriched, attempts,
                   reply, fetched>>

NextUrl == NormalizeUrl

SpecUrl == InitUrl /\ [][NextUrl]_vars

InitTitle ==
    /\ pc = "normalize_title"
    /\ title \in TitleInputs
    /\ url = <<>>
    /\ Idle

NormalizeTitle ==
    /\ pc = "normalize_title"
    /\ Len(canon) < MaxApply
    /\ canon' = Append(canon, normalize_title(Current(title)))
    /\ UNCHANGED <<pc, url, title, max_articles, min_chars, articles, ranked,
                   deduplicated, idx, enriched, attempts,
                   reply, fetched>>

NextTitle == NormalizeTitle

SpecTitle == InitTitle /\ [][NextTitle]_vars

-----------------------------------------------------------------------------
(* Properties of enrich_with_text (SpecEnrich).                            *)

\* the loop of enrich_with_text has run over every item
EnrichDone == pc \in {"summarize_articles", "nothing_to_send"}

\* the iteration k appended its item
Kept(k) == attempts[k].size > (IF k = 1 THEN 0 ELSE attempts[k - 1].size)

\* the record the iteration k appended
Output(k) == enriched[attempts[k].size]

\* the extraction of iteration k succeeded, and what it returned
Extracted(k) == attempts[k].extracted # None
ExtractedText(k) == attempts[k].extracted[1]

\* C1: every record in the list enrich_with_text builds and returns (the list
\* process_articles hands to the summarizer) carries a non-empty fulltext.
C1_FulltextNonEmpty ==
    \A i \in DOMAIN enriched :
        /\ enriched[i].fulltext # None
        /\ enriched[i].fulltext[1] # <<>>

\* C1 happens: the list is handed to the summarizer after an item was dropped
\* and another was kept on an extraction that returned text.
C1_Witness ==
    /\ pc = "summarize_articles"
    /\ Len(enriched) < Len(deduplicated)
    /\ \E k \in DOMAIN attempts : Kept(k) /\ attempts[k].called /\ Extracted(k)

\* C5 as stated: the fulltext of a kept record is the first alternative that
\* holds of (1) content longer than min_chars, (2) description longer than
\* min_chars, (3) extracted text longer than min_chars, (4) non-empty description.
C5_AsStated ==
    \A k \in DOMAIN attempts :
        Kept(k) =>
            LET item == attempts[k].item
                ft == Output(k).fulltext[1]
                one == Len(item.content) > min_chars
                two == Len(item.description) > min_chars
                three == Extracted(k) /\ Len(ExtractedText(k)) > min_chars
            IN  /\ one => ft = item.content
                /\ ~one /\ two => ft = item.description
                /\ ~one /\ ~two /\ three => ft = ExtractedText(k)
                /\ ~one /\ ~two /\ ~three => ft = item.description /\ ft # <<>>

\* C5, amended: the same with every alternative also requiring its text to be
\* non-empty (which "longer than min_chars" implies whenever min_chars >= 0).
C5_FallbackOrder ==
    \A k \in DOMAIN attempts :
        Kept(k) =>
            LET item == attempts[k].item
                ft == Output(k).fulltext[1]
                one == item.content # <<>> /\ Len(item.content) > min_chars
                two == item.description # <<>> /\ Len(item.description) > min_chars
                three == /\ Extracted(k)
                         /\ ExtractedText(k) # <<>>
                         /\ Len(ExtractedText(k)) > min_chars
            IN  /\ one => ft = item.content
                /\ ~one /\ two => ft = item.description
                /\ ~one /\ ~two /\ three => ft = ExtractedText(k)
                /\ ~one /\ ~two /\ ~three => ft = item.description /\ ft # <<>>

\* C5 happens: a kept record whose content has exactly min_chars characters
\* and whose description is longer, and one kept on its short description
\* after an extraction that returned too little.
C5_Witness ==
    /\ EnrichDone
    /\ min_chars >= 1
    /\ \E k \in DOMAIN attempts :
           /\ Kept(k)
           /\ Len(attempts[k].item.content) = min_chars
           /\ Len(attempts[k].item.description) > min_chars
    /\ \E k \in DOMAIN attempts :
           /\ Kept(k)
           /\ Extracted(k)
           /\ Len(ExtractedText(k)) = min_chars
           /\ Output(k).fulltext[1] = attempts[k].item.description

\* the indices of an index set, ascending, as a sequence
RECURSIVE Ascending(_)
Ascending(S) ==
    IF S = {} THEN <<>>
    ELSE LET m == CHOOSE x \in S : \A y \in S : x <= y
         IN  <<m>> \o Ascending(S \ {m})

\* the items at the indices ks, in that order, as the caller handed them in
ItemsAt(ks) == [i \in DOMAIN ks |-> deduplicated[ks[i]]]

\* the records of enriched with their fulltext taken off again
WithoutFulltext(list) == [i \in DOMAIN list |-> [list[i] EXCEPT !.fulltext = None]]

\* C6 as stated: a record is dropped exactly when its content is not longer
\* than min_chars, its description is empty and the extraction failed or
\* returned text not longer than min_chars; the others are returned, in order.
C6_AsStated ==
    EnrichDone =>
        LET Dropped(k) ==
                /\ ~(Len(attempts[k].item.content) > min_chars)
                /\ attempts[k].item.description = <<>>
                /\ ~Extracted(k) \/ ~(Len(ExtractedText(k)) > min_chars)
        IN  WithoutFulltext(enriched)
                = ItemsAt(Ascending({k \in DOMAIN deduplicated : ~Dropped(k)}))

\* C6, amended: "longer than min_chars" also requires the text to be non-empty.
C6_DropRule ==
    EnrichDone =>
        LET Dropped(k) ==
                /\ attempts[k].item.content = <<>>
                       \/ ~(Len(attempts[k].item.content) > min_chars)
                /\ attempts[k].item.description = <<>>
                /\ \/ ~Extracted(k)
                   \/ ExtractedText(k) = <<>>
                   \/ ~(Len(ExtractedText(k)) > min_chars)
        IN  /\ Len(attempts) = Len(deduplicated)
            /\ \A k \in DOMAIN attempts : attempts[k].item = deduplicated[k]
            /\ WithoutFulltext(enriched)
                   = ItemsAt(Ascending({k \in DOMAIN deduplicated : ~Dropped(k)}))

\* C6 happens: of two items the first is dropped (nothing in it, and the
\* extraction returned too little) and the second is kept.
C6_Witness ==
    /\ pc = "summarize_articles"
    /\ Len(deduplicated) = 2
    /\ Len(enriched) = 1
    /\ ~Kept(1)
    /\ Extracted(1)
    /\ ExtractedText(1) # <<>>
    /\ Kept(2)

-----------------------------------------------------------------------------
(* Properties of normalize_and_dedupe (SpecDedupe).                        *)

\* normalize_and_dedupe has returned
DedupeDone == pc = "sort"

SameUrlKey(a, b) == NormalizedUrl[a.url] = NormalizedUrl[b.url]
SameTitleKey(a, b) == NormalizedTitle[a.title] = NormalizedTitle[b.title]

\* the record as the adapter made it, without the score
Unscored(r) == [r EXCEPT !.priority_score = None]

\* C2: every record of the pool has, among the records returned, one with its
\* canonical URL or its canonical title that was published at least as late
\* (for a record that was dropped: the version that was kept instead of it);
\* and of a pool of two records with the same canonical URL, different
\* canonical titles and different published_at, exactly the later one is
\* returned.
C2_NewestKept ==
    DedupeDone =>
        /\ \A i \in DOMAIN articles : \E j \in DOMAIN ranked :
               /\ SameUrlKey(articles[i], ranked[j]) \/ SameTitleKey(articles[i], ranked[j])
               /\ PublishedKey(ranked[j]) >= PublishedKey(articles[i])
        /\ ( /\ Len(articles) = 2
             /\ SameUrlKey(articles[1], articles[2])
             /\ ~SameTitleKey(articles[1], articles[2])
             /\ articles[1].published_at # articles[2].published_at )
           => /\ Len(ranked) = 1
              /\ \A i \in 1..2 : PublishedKey(ranked[1]) >= PublishedKey(articles[i])
              /\ \E i \in 1..2 : Unscored(ranked[1]) = articles[i]

\* C2 happens: two records whose URLs differ only in the query string, with
\* different titles, the second of the pool the later one; it alone is returned.
C2_Witness ==
    /\ DedupeDone
    /\ Len(articles) = 2
    /\ articles[1].url # articles[2].url
    /\ SameUrlKey(articles[1], articles[2])
    /\ ~SameTitleKey(articles[1], articles[2])
    /\ articles[1].published_at = Some(2)
    /\ articles[2].published_at = Some(1)
    /\ Len(ranked) = 1
    /\ Unscored(ranked[1]) = articles[1]

\* C7: the list returned is ordered by priority_score descending and, among
\* records of equal score, by published_at descending, a missing published_at
\* last in its score group.
C7_RankOrder ==
    DedupeDone =>
        \A i \in 1..(Len(ranked) - 1) :
            LET a == ranked[i]
                b == ranked[i + 1]
            IN  /\ a.priority_score # None
                /\ b.priority_score # None
                /\ \/ a.priority_score[1] > b.priority_score[1]
                   \/ /\ a.priority_score[1] = b.priority_score[1]
                      /\ \/ b.published_at = None
                         \/ /\ a.published_at # None
                            /\ a.published_at[1] >= b.published_at[1]

\* C7 happens: two records are returned, the first with the higher score
\* although it is the older of the two.
C7_Witness ==
    /\ DedupeDone
    /\ Len(ranked) = 2
    /\ ranked[1].priority_score[1] > ranked[2].priority_score[1]
    /\ ranked[1].published_at = Some(1)
    /\ ranked[2].published_at = Some(2)

-----------------------------------------------------------------------------
(* Properties of process_articles (Spec).                                  *)

Min(a, b) == IF a < b THEN a ELSE b

\* the run is over: main returned, handed the list on, or exited with status 1
RunOver == pc \in {"nothing_to_send", "summarize_articles", "exit_1"}

\* C3: the records process_articles passes to enrich_with_text are the
\* max_articles first records of the list normalize_and_dedupe returned (the
\* highest-ranked by priority_score, then published_at), and no others.
C3_TopRankedEnriched ==
    pc = "enrich_with_text" =>
        {Unscored(deduplicated[i]) : i \in DOMAIN deduplicated}
            = {Unscored(ranked[i]) : i \in 1..Min(max_articles, Len(ranked))}

\* C4: enrichment is never attempted before deduplication and truncation are
\* over, never on more than min(max_articles, number of deduplicated records)
\* records, and by the end of the run on exactly that many.
C4_TruncateBeforeEnrich ==
    /\ attempts # <<>> => pc \in {"enrich_with_text", "summarize_articles", "nothing_to_send"}
    /\ Len(attempts) <= Min(max_articles, Len(ranked))
    /\ RunOver => Len(attempts) = Min(max_articles, Len(ranked))

-----------------------------------------------------------------------------
(* Properties of the canonicalisers (SpecUrl, SpecTitle).                  *)

\* C8: normalize_url is idempotent: applied to its own result it returns that
\* result, for every input string.
C8_UrlIdempotent ==
    (pc = "normalize_url" /\ Len(canon) = 2) => canon[2] = canon[1]

\* C9: normalize_title is idempotent: applied to its own result it returns
\* that result, for every title.
C9_TitleIdempotent ==
    (pc = "normalize_title" /\ Len(canon) = 2) => canon[2] = canon[1]

\* C9 happens: a title that ends with two stacked publisher suffixes has lost
\* the last of them and been lowercased, so that what is left ends with the
\* suffix in lower case, and normalize_title has been applied again.
C9_Witness ==
    /\ pc = "normalize_title"
    /\ Len(canon) = 2
    /\ title = <<"a">> \o suffixes[4] \o suffixes[4]
    /\ canon[1] = <<"a", " ", "|", " ", "w", "i", "r", "e", "d">>

-----------------------------------------------------------------------------
(* Properties of the source adapters (SpecAdapter).                        *)

\* the source of a keyword-API adapter failed: no credential, no usable
\* response, or a payload with a null where a list or a string belongs
SourceFailed ==
    /\ reply.adapter \in {"newsapi", "nyt"}
    /\ \/ ~reply.key
       \/ reply.http # "ok"
       \/ reply.list.k = "null"
       \/ /\ reply.list.k = "list"
          /\ \E i \in DOMAIN reply.list.v :
                 IF reply.adapter = "newsapi" THEN NewsapiRaises(reply.list.v[i])
                 ELSE NytRaises(reply.list.v[i])

\* C10: no adapter raises past its own boundary, whatever its source answers,
\* and a keyword-API adapter whose source failed returns the empty list.
C10_AdaptersNeverRaise ==
    pc = "fetched" =>
        /\ ~fetched.raised
        /\ SourceFailed => fetched.articles = <<>>

-----------------------------------------------------------------------------
(* Properties of the whole run, from the adapters' records to the list     *)
(* handed to summarize_articles (Spec).                                    *)

\* process_articles calls summarize_articles(enriched)
Summarizing == pc = "summarize_articles"

\* C11: every record of the list handed to the summarizer has a non-empty
\* title, a non-empty url, a non-empty source name and a published_at,
\* whatever the adapters returned.
C11_OutputFieldsPresent ==
    Summarizing =>
        \A i \in DOMAIN enriched :
            /\ enriched[i].title # <<>>
            /\ enriched[i].url # <<>>
            /\ enriched[i].source # <<>>
            /\ enriched[i].published_at # None

\* gather_articles returned the empty list
GatheredNothing == pc # "gather_articles" /\ ~fetched.raised /\ fetched.articles = <<>>

\* enrich_with_text was called by process_articles and has returned
EnrichReturned == idx > Len(deduplicated) /\ idx >= 1 /\ pc # "enrich_with_text"

\* main returned after "Nothing to send": no exception, no exit status, and
\* neither summarize_articles nor the rendering and sending were called
NothingToSend == pc = "nothing_to_send"

\* C12: normalize_and_dedupe([]) is []; a run whose gathering returned no
\* record, and a run in which enrich_with_text dropped every record, ends with
\* a normal return of main and an empty result: no exit with status 1, no call
\* of the summarizer or of the delivery.
C12_EmptyIsNotAnError ==
    /\ normalize_and_dedupe(<<>>) = <<>>
    /\ GatheredNothing => NothingToSend
    /\ (EnrichReturned /\ enriched = <<>>) => NothingToSend

\* C12 happens: two records were gathered, deduplicated and sorted, both were
\* dropped by enrich_with_text after an extraction each, and main returned.
C12_Witness ==
    /\ NothingToSend
    /\ Len(fetched.articles) = 2
    /\ Len(deduplicated) = 2
    /\ Len(attempts) = 2
    /\ \A k \in DOMAIN attempts : attempts[k].called
    /\ enriched = <<>>

\* the record with the two keys the pipeline adds taken away again
AsCreated(r) == [r EXCEPT !.priority_score = None, !.fulltext = None]

\* the records as the adapters created them
Created == Range(fetched.articles)

\* C13: every record of the pipeline is, but for priority_score and fulltext, a
\* record as its adapter created it: normalize_and_dedupe returns records of
\* its input with nothing changed but priority_score, enrich_with_text returns
\* records of its input with nothing changed but fulltext, and the list main
\* holds is the gathered one in another order.
C13_FieldsUnchanged ==
    /\ \A i \in DOMAIN articles : AsCreated(articles[i]) \in Created
    /\ \A i \in DOMAIN ranked :
           /\ [ranked[i] EXCEPT !.priority_score = None] \in Created
           /\ ranked[i].priority_score # None
    /\ \A i \in DOMAIN deduplicated : \E j \in DOMAIN ranked : deduplicated[i] = ranked[j]
    /\ \A i \in DOMAIN enriched :
           /\ \E j \in DOMAIN deduplicated :
                  [enriched[i] EXCEPT !.fulltext = None] = deduplicated[j]
           /\ enriched[i].fulltext # None
           /\ AsCreated(enriched[i]) \in Created

\* C13 happens: a record whose title and URL both differ from their normalised
\* keys has been scored and enriched and is handed to the summarizer.
C13_Witness ==
    /\ Summarizing
    /\ \E i \in DOMAIN enriched :
           /\ NormalizedTitle[enriched[i].title] # enriched[i].title
           /\ NormalizedUrl[enriched[i].url] # enriched[i].url
           /\ enriched[i].priority_score # None
           /\ enriched[i].fulltext # None

-----------------------------------------------------------------------------
(* Further properties of normalize_and_dedupe (SpecDedupe).  After the     *)
(* call, articles is the pool in the order the loop visited it.            *)

SameKey(a, b) == SameUrlKey(a, b) \/ SameTitleKey(a, b)

\* K is the set of visited positions that were kept: a position is in K
\* exactly when no earlier position of K has its canonical URL or title
FollowsDropRule(K) ==
    \A i \in DOMAIN articles :
        i \in K <=> ~\E j \in K : j < i /\ SameKey(articles[i], articles[j])

\* C14: the records returned have pairwise distinct canonical URLs and
\* pairwise distinct canonical titles; the pool is visited newest first, and
\* the records returned are exactly the visited ones that share no canonical
\* URL and no canonical title with a record kept before them (what a dropped
\* record carries blocks nothing); of a pool of two records with the same
\* canonical title and different URLs, exactly one is returned.
C14_DropRule ==
    DedupeDone =>
        /\ \A i, j \in DOMAIN ranked : i # j => ~SameKey(ranked[i], ranked[j])
        /\ \A i, j \in DOMAIN articles :
               i < j => PublishedKey(articles[i]) >= PublishedKey(articles[j])
        /\ \E K \in SUBSET DOMAIN articles :
               /\ FollowsDropRule(K)
               /\ Len(ranked) = Cardinality(K)
               /\ {Unscored(ranked[j]) : j \in DOMAIN ranked} = {articles[k] : k \in K}
        /\ ( /\ Len(articles) = 2
             /\ SameTitleKey(articles[1], articles[2])
             /\ articles[1].url # articles[2].url )
           => Len(ranked) = 1

\* C14 happens: the second record visited is dropped for the URL of the first;
\* the third has the title of the second and is kept all the same.
C14_Witness ==
    /\ DedupeDone
    /\ Len(articles) = 3
    /\ SameUrlKey(articles[2], articles[1])
    /\ ~SameTitleKey(articles[2], articles[1])
    /\ SameTitleKey(articles[3], articles[2])
    /\ ~SameKey(articles[3], articles[1])
    /\ Len(ranked) = 2
    /\ \E j \in DOMAIN ranked : Unscored(ranked[j]) = articles[3]

\* the keywords of the vocabulary, each once, that occur in the lowercased title
KeywordsIn(t) == {k \in Range(priority_keywords) : Contains(k, Lower(t))}

\* C15: the priority_score of every record returned is the number of distinct
\* keywords of the vocabulary that occur in its lowercased title: a keyword
\* that occurs counts 1, one that does not counts 0.
C15_ScoreCountsKeywords ==
    DedupeDone =>
        \A i \in DOMAIN ranked :
            ranked[i].priority_score = Some(Cardinality(KeywordsIn(ranked[i].title)))

-----------------------------------------------------------------------------
(* The sorts of a run (Spec).                                              *)

\* newest first, a record without published_at behind every record with one
NewestFirst(items) ==
    \A i, j \in DOMAIN items :
        i < j => \/ items[j].published_at = None
                 \/ /\ items[i].published_at # None
                    /\ items[i].published_at[1] >= items[j].published_at[1]

\* C16: each of the three sorts of a run puts a record without published_at
\* behind every record with one, and completes: after normalize_and_dedupe the
\* pool is newest first and the list returned is newest first within each
\* score; after the orchestrator's sort the list is newest first; and the run
\* exits with status 1 only when an adapter raised, never out of a sort.
C16_SortsTakeMissingAsOldest ==
    /\ pc = "sort" =>
           /\ NewestFirst(articles)
           /\ \A s \in 0..Len(priority_keywords) :
                  NewestFirst(SelectSeq(ranked, LAMBDA r : r.priority_score = Some(s)))
    /\ pc = "truncate" => NewestFirst(deduplicated)
    /\ pc = "exit_1" => fetched.raised

-----------------------------------------------------------------------------
(* Extraction attempts of enrich_with_text (SpecEnrich).  The iteration k  *)
(* of the loop is attempts[k]; it calls extract_fulltext once or not at    *)
(* all, and "called" says which.                                           *)

\* every record is visited by one iteration, in the order of the list
OneIterationEach ==
    /\ Len(attempts) <= Len(deduplicated)
    /\ \A k \in DOMAIN attempts : attempts[k].item = deduplicated[k]

\* C17 as stated: extraction is attempted only for a record of which neither
\* the content nor the description is longer than min_chars, and a record
\* whose content is longer than min_chars is kept with its content as
\* fulltext and without an attempt.
C17_AsStated ==
    /\ OneIterationEach
    /\ \A k \in DOMAIN attempts :
           LET item == attempts[k].item
           IN  /\ attempts[k].called =>
                      /\ ~(Len(item.content) > min_chars)
                      /\ ~(Len(item.description) > min_chars)
               /\ Len(item.content) > min_chars =>
                      /\ ~attempts[k].called
                      /\ Kept(k)
                      /\ Output(k).fulltext = Some(item.content)

\* C17: every record is visited by one iteration, which attempts extraction at
\* most once and only if neither the content nor the description of the
\* record is non-empty and longer than min_chars; a record whose content is
\* non-empty and longer than min_chars is kept with its content as fulltext
\* and without an attempt.
C17_ExtractionLastResort ==
    /\ OneIterationEach
    /\ \A k \in DOMAIN attempts :
           LET item == attempts[k].item
           IN  /\ attempts[k].called =>
                      /\ ~(item.content # <<>> /\ Len(item.content) > min_chars)
                      /\ ~(item.description # <<>> /\ Len(item.description) > min_chars)
               /\ ~attempts[k].called => attempts[k].extracted = None
               /\ (item.content # <<>> /\ Len(item.content) > min_chars) =>
                      /\ ~attempts[k].called
                      /\ Kept(k)
                      /\ Output(k).fulltext = Some(item.content)

\* C17 happens: of two records the first, with content longer than min_chars,
\* is kept with its content and without an attempt; the second, with nothing
\* longer than min_chars, is dropped after its one attempt returned text that
\* is too short.
C17_Witness ==
    /\ EnrichDone
    /\ min_chars >= 1
    /\ Len(attempts) = 2
    /\ Len(attempts[1].item.content) > min_chars
    /\ ~attempts[1].called
    /\ Kept(1)
    /\ Output(1).fulltext = Some(attempts[1].item.content)
    /\ attempts[2].called
    /\ Extracted(2)
    /\ ExtractedText(2) # <<>>
    /\ Len(ExtractedText(2)) <= min_chars
    /\ ~Kept(2)

=============================================================================
